---- MODULE Spec2Model ----
(***************************************************************************)
(* Peer discovery over libp2p: the bootstrap handshake, the shared peer    *)
(* map and the routing-table reconciliation loop of mp2p.go.               *)
(*                                                                         *)
(* The source file holds two variants of the program:                      *)
(*   "mp2p" (lines 1-343):   protocol /mp2p/bootstrap, the request line is *)
(*                           the sender's own connect string (or empty),   *)
(*                           the loop diffs the routing table into peerMap *)
(*   "dht"  (lines 345-682): protocol /p2p/dht, the request line is a      *)
(*                           marker, the loop only lists the routing table *)
(* The variable variant says which one runs; both ends of a handshake run  *)
(* the same variant (the protocol identifiers differ).                     *)
(*                                                                         *)
(* Two processes are modelled.  Node "N" is the program from the moment    *)
(* its host is constructed: main thread, inbound stream handlers, the      *)
(* one-shot bootstrap client and the reconciliation goroutine.  Node "S"   *)
(* is a seed that runs the same program: of it the model keeps the peer    *)
(* map, the lock and the one handler that serves N's bootstrap stream.     *)
(*                                                                         *)
(* Text is a sequence of tokens (strings cannot be taken apart in TLC).    *)
(***************************************************************************)
EXTENDS Integers, Sequences, FiniteSets, TLC

VARIABLES
    variant,      \* which of the two programs runs
    bootstrapAddr,\* Init's second argument: the seed's connect string
    natAddr,      \* the node's public connect string (mp2p, line 261/284)
    mainPc,       \* position of N's main thread inside Init
    registered,   \* SetStreamHandler has run
    notified,     \* signal.Notify has run
    hostClosed,   \* node.Close() has run
    exitCause,    \* why the process ended: "none", "signal", "fatal"
    pm,           \* pm[n]: peerMap / peerIpfsMap of node n
    lockW,        \* lockW[n]: the task holding n's RWMutex exclusively
    lockR,        \* lockR[n]: the tasks holding n's RWMutex shared
    hs,           \* hs[h]: the inbound stream handler in slot h
    respBuf,      \* bytes the bootstrap client can read from its stream
    bootText,     \* the response line the client read
    bootList,     \* maArray / maTextArray decoded from it
    bootIdx,      \* index of the range loop over it
    bootDial,     \* per element: the outcome of node.Connect
    bootErr,      \* how bootstrap ended
    bootStream,   \* the stream s of bootstrap: "none", "open", "reset"
    hiTodo,       \* dht: map keys the sayHi loop still visits
    reconPc,      \* position of the reconciliation goroutine
    tickA,        \* keys of peerMap when the tick took the lock
    tickB,        \* what ListPeers returned in the tick
    tickLog       \* the log lines of the tick ("joined"/"left" events)

vars == <<variant, bootstrapAddr, natAddr, mainPc, registered, notified,
          hostClosed, exitCause, pm, lockW, lockR, hs, respBuf,
          bootText, bootList, bootIdx, bootDial, bootErr, bootStream, hiTodo, reconPc,
          tickA, tickB, tickLog>>

(***************************************************************************)
(* Bounds of the model.                                                    *)
(***************************************************************************)
\* inbound streams node N serves at the same time
MaxHandlers == 2
\* longest list a seed that is not this program answers with
MaxList == 2

(***************************************************************************)
(* Peers and text.                                                         *)
(***************************************************************************)
Variants == {"mp2p", "dht"}
Nodes    == {"S", "N"}
\* peers that open streams to N
EnvPeers == {"A"}
PeerIds  == {"S", "N", "A", "B"}

LF     == "<LF>"      \* the byte '\n'
SlashN == "/n"        \* the two bytes '/' 'n'
Quote  == "<QUOTE>"   \* the byte '"'
EscQuote == "<BACKSLASH><QUOTE>"
Ipfs   == "/ipfs/"
Junk   == "junk"

\* s.Conn().RemoteMultiaddr().String(): one transport address per peer
MaOf(p) == "/ip4/" \o p \o "/udp/1/quic"
Transports == {MaOf(p) : p \in PeerIds}

\* strings.Join([]string{peerMa, "/ipfs/", peerId}, "")
JoinAddr(peerMa, peerId) == <<peerMa, Ipfs, peerId>>
ConnectString(p) == JoinAddr(MaOf(p), p)

Range(s) == {s[i] : i \in 1..Len(s)}

\* index of the first '\n' of buf, 0 when there is none
FirstLF(buf) ==
    IF LF \in Range(buf)
    THEN CHOOSE i \in 1..Len(buf) : buf[i] = LF /\ \A j \in 1..(i - 1) : buf[j] # LF
    ELSE 0

\* reader.ReadString('\n') returns when the delimiter has arrived
HasLine(buf) == FirstLF(buf) # 0

\* the text ReadString returns, with strings.Replace(text, "\n", "", -1)
ReadLine(buf) == SelectSeq(SubSeq(buf, 1, FirstLF(buf)), LAMBDA t : t # LF)

(***************************************************************************)
(* textToAddrInfo: multiaddr.NewMultiaddr, then peer.AddrInfoFromP2pAddr.  *)
(* A multiaddr is a sequence of components; a component is a transport     *)
(* address or "/ipfs/" followed by a peer ID.  AddrInfoFromP2pAddr wants   *)
(* the last component to be the "/ipfs/" one and returns its peer ID.      *)
(***************************************************************************)
RECURSIVE IsMultiaddr(_)
IsMultiaddr(text) ==
    IF text = <<>> THEN TRUE
    ELSE IF Head(text) \in Transports THEN IsMultiaddr(Tail(text))
    ELSE IF Head(text) = Ipfs /\ Len(text) >= 2 /\ text[2] \in PeerIds
         THEN IsMultiaddr(Tail(Tail(text)))
    ELSE FALSE

ParseOk(text) ==
    /\ Len(text) >= 2
    /\ IsMultiaddr(text)
    /\ text[Len(text) - 1] = Ipfs
    /\ text[Len(text)] \in PeerIds

\* addrInfo.ID.String() of a text that parses
ParseId(text) == text[Len(text)]

(***************************************************************************)
(* encoding/json on []string.                                              *)
(***************************************************************************)
RECURSIVE Escape(_)
Escape(text) ==
    IF text = <<>> THEN <<>>
    ELSE (IF Head(text) = Quote THEN <<EscQuote>> ELSE <<Head(text)>>)
         \o Escape(Tail(text))

JsonString(text) == <<Quote>> \o Escape(text) \o <<Quote>>

RECURSIVE JsonElems(_)
JsonElems(list) ==
    IF list = <<>> THEN <<>>
    ELSE IF Len(list) = 1 THEN JsonString(list[1])
    ELSE JsonString(list[1]) \o <<",">> \o JsonElems(Tail(list))

\* json.Marshal(maArray) of a slice that is not nil
Marshal(list) == <<"[">> \o JsonElems(list) \o <<"]">>

\* json.Marshal of the nil slice, without the "[]" the code starts from
ResponseJsonOfNil(list) == IF list = <<>> THEN <<"null">> ELSE Marshal(list)

\* lines 135-143 / 472-480: the nil slice is answered with "[]"
ResponseJson(list) == IF Len(list) > 0 THEN Marshal(list) ELSE <<"[", "]">>

\* decoding one JSON string that starts at toks[1] = Quote:
\* [ok, str, rest], rest being what follows the closing quote
RECURSIVE ScanString(_, _)
ScanString(toks, acc) ==
    IF toks = <<>> THEN [ok |-> FALSE, str |-> <<>>, rest |-> <<>>]
    ELSE IF Head(toks) = Quote THEN [ok |-> TRUE, str |-> acc, rest |-> Tail(toks)]
    ELSE IF Head(toks) = EscQuote THEN ScanString(Tail(toks), Append(acc, Quote))
    ELSE ScanString(Tail(toks), Append(acc, Head(toks)))

\* the elements after "[": string ("," string)* "]" and nothing after it
RECURSIVE ScanElems(_, _)
ScanElems(toks, acc) ==
    IF toks = <<>> \/ Head(toks) # Quote THEN [ok |-> FALSE, list |-> <<>>]
    ELSE LET s == ScanString(Tail(toks), <<>>)
         IN  IF ~s.ok \/ s.rest = <<>> THEN [ok |-> FALSE, list |-> <<>>]
             ELSE IF s.rest = <<"]">> THEN [ok |-> TRUE, list |-> Append(acc, s.str)]
             ELSE IF Head(s.rest) = "," THEN ScanElems(Tail(s.rest), Append(acc, s.str))
             ELSE [ok |-> FALSE, list |-> <<>>]

\* json.Unmarshal([]byte(text), &maArray): null leaves the slice nil
Unmarshal(text) ==
    IF text = <<"null">> THEN [ok |-> TRUE, list |-> <<>>]
    ELSE IF text = <<"[", "]">> THEN [ok |-> TRUE, list |-> <<>>]
    ELSE IF text # <<>> /\ Head(text) = "[" THEN ScanElems(Tail(text), <<>>)
    ELSE [ok |-> FALSE, list |-> <<>>]

(***************************************************************************)
(* The peer map and the lock.                                              *)
(***************************************************************************)
EmptyMap == [k \in {} |-> <<>>]

\* peerMap = map[string]string{k: v}: a fresh map instead of an assignment
MapPutFresh(m, k, v) == [x \in {k} |-> v]

\* "if _, exists := peerMap[k]; !exists { peerMap[k] = v }"
MapPutIfAbsent(m, k, v) == IF k \in DOMAIN m THEN m ELSE [x \in (DOMAIN m) \cup {k} |-> IF x = k THEN v ELSE m[x]]

\* peerMap[k] = v
MapPut(m, k, v) == [x \in (DOMAIN m) \cup {k} |-> IF x = k THEN v ELSE m[x]]

\* delete(peerMap, k)
MapDelete(m, k) == [x \in (DOMAIN m) \ {k} |-> m[x]]

NoTask == -1
Recon  == -2

\* sm.Lock() returns when nobody holds the lock
CanLock(n) == lockW[n] = NoTask /\ lockR[n] = {}
\* sm.RLock() returns when no writer holds the lock
CanRLock(n) == lockW[n] = NoTask

\* sm.Unlock() left out
KeepW(holder) == holder
\* sm.Unlock()
ReleaseW(holder) == NoTask
\* sm.RUnlock() left out
KeepR(readers, task) == readers
\* sm.RUnlock()
ReleaseR(readers, task) == readers \ {task}

(***************************************************************************)
(* Inbound stream handlers: handleBootstrapStream (mp2p), handleStream     *)
(* (dht).  Slot 0 is the seed's handler for N's bootstrap stream; slots    *)
(* 1..MaxHandlers are N's handlers for streams opened by other peers.      *)
(***************************************************************************)
Slots == 0..MaxHandlers
Srv(h) == IF h = 0 THEN "S" ELSE "N"

Discover == "DISCOVER"   \* the literal of line 453
Hello    == "HELLO"      \* the literal of line 487
Fine     == "Fine!"      \* the literal of line 488

\* pc: where the handler is; peer: s.Conn().RemotePeer(); inbuf: the bytes
\* that arrived; text: the line read; kind: how the line was taken; arr:
\* maArray / idArray; keys: the map keys whose values went into arr;
\* replied: a reply was written to the stream (the bytes themselves go to
\* the peer: respBuf when the peer is N's bootstrap client)
Idle == [pc |-> "idle", peer |-> "none", inbuf |-> <<>>, text |-> <<>>,
         kind |-> "none", arr |-> <<>>, keys |-> {}, replied |-> FALSE]

\* the process of node N runs
Alive == mainPc # "exited"
Runs(h) == h = 0 \/ Alive

\* what a peer sends after opening a stream: a line, or bytes without '\n'
EnvBytes(p) ==
    IF variant = "mp2p"
    THEN {<<LF>>, ConnectString(p) \o <<LF>>, <<Junk, LF>>}
    ELSE {<<Discover, LF>>, <<Hello, LF>>, <<Junk, LF>>, <<Discover>>}

\* a switch whose default falls into the discovery case
DispatchDefaultDiscover(v, text) ==
    IF v = "dht" /\ text = <<Hello>> THEN "hello" ELSE "discover"

\* how the handler takes the line it read: lines 113-120 treat every line as
\* a discovery request; lines 451-494 switch on the two literals
Dispatch(v, text) ==
    IF v = "mp2p" THEN "discover"
    ELSE IF text = <<Discover>> THEN "discover"
    ELSE IF text = <<Hello>> THEN "hello"
    ELSE "ignore"

\* the line stored as it came, without the "if text != \"\"" of line 115
UpsertValueRaw(v, text, peerMa, peerId) == text

\* the value stored for the sender: lines 115-119, line 456
UpsertValue(v, text, peerMa, peerId) ==
    IF v = "mp2p" /\ text # <<>> THEN text ELSE JoinAddr(peerMa, peerId)

\* the range loop without its "if k == peerId { continue }"
CollectAllKeys(m, peerId) == DOMAIN m

\* the keys whose values the range loop appends: lines 125-131, 462-468
CollectKeys(m, peerId) == {k \in DOMAIN m : k # peerId}

\* the orders in which range can visit a set of keys
Orders(K) == {s \in [1..Cardinality(K) -> K] : \A i, j \in 1..Cardinality(K) : s[i] = s[j] => i = j}

\* a peer opens a stream to N and sends its bytes
HOpen(h, p, bytes) ==
    /\ h # 0 /\ Alive /\ registered
    /\ hs[h].pc = "idle"
    /\ \A g \in 1..(h - 1) : hs[g].pc # "idle"
    /\ hs' = [hs EXCEPT ![h] = [Idle EXCEPT !.pc = "read", !.peer = p, !.inbuf = bytes]]
    /\ UNCHANGED <<variant, bootstrapAddr, natAddr, mainPc, registered, notified,
                   hostClosed, exitCause, pm, lockW, lockR, respBuf,
                   bootText, bootList, bootIdx, bootDial, bootErr, bootStream, hiTodo, reconPc,
                   tickA, tickB, tickLog>>

\* lines 106-111, 442-449 and the switch of 451
HRead(h) ==
    /\ Runs(h) /\ hs[h].pc = "read" /\ HasLine(hs[h].inbuf)
    /\ LET text == ReadLine(hs[h].inbuf)
           kind == Dispatch(variant, text)
       IN  hs' = [hs EXCEPT ![h].text = IF kind = "discover" THEN text ELSE <<>>,
                            ![h].inbuf = <<>>,
                            ![h].kind = kind,
                            ![h].peer = IF kind = "discover" THEN @ ELSE "none",
                            ![h].pc = CASE kind = "discover" -> "lock"
                                        [] kind = "hello" -> "hello"
                                        [] OTHER -> "done"]
    /\ UNCHANGED <<variant, bootstrapAddr, natAddr, mainPc, registered, notified,
                   hostClosed, exitCause, pm, lockW, lockR, respBuf,
                   bootText, bootList, bootIdx, bootDial, bootErr, bootStream, hiTodo, reconPc,
                   tickA, tickB, tickLog>>

\* lines 107-110, 444-447: the peer went away before a '\n' arrived
HReadFail(h) ==
    /\ Runs(h) /\ hs[h].pc = "read"
    /\ hs' = [hs EXCEPT ![h] = [Idle EXCEPT !.pc = "done", !.kind = "readerr"]]
    /\ UNCHANGED <<variant, bootstrapAddr, natAddr, mainPc, registered, notified,
                   hostClosed, exitCause, pm, lockW, lockR, respBuf,
                   bootText, bootList, bootIdx, bootDial, bootErr, bootStream, hiTodo, reconPc,
                   tickA, tickB, tickLog>>

\* line 114, 455
HLock(h) ==
    /\ Runs(h) /\ hs[h].pc = "lock" /\ CanLock(Srv(h))
    /\ lockW' = [lockW EXCEPT ![Srv(h)] = h]
    /\ hs' = [hs EXCEPT ![h].pc = "upsert"]
    /\ UNCHANGED <<variant, bootstrapAddr, natAddr, mainPc, registered, notified,
                   hostClosed, exitCause, pm, lockR, respBuf,
                   bootText, bootList, bootIdx, bootDial, bootErr, bootStream, hiTodo, reconPc,
                   tickA, tickB, tickLog>>

\* lines 115-120, 456-457
HUpsert(h) ==
    /\ Runs(h) /\ hs[h].pc = "upsert"
    /\ pm' = [pm EXCEPT ![Srv(h)] =
                 MapPut(@, hs[h].peer,
                        UpsertValue(variant, hs[h].text, MaOf(hs[h].peer), hs[h].peer))]
    /\ lockW' = [lockW EXCEPT ![Srv(h)] = ReleaseW(@)]
    /\ hs' = [hs EXCEPT ![h].pc = "rlock", ![h].text = <<>>]
    /\ UNCHANGED <<variant, bootstrapAddr, natAddr, mainPc, registered, notified,
                   hostClosed, exitCause, lockR, respBuf,
                   bootText, bootList, bootIdx, bootDial, bootErr, bootStream, hiTodo, reconPc,
                   tickA, tickB, tickLog>>

\* line 124, 461
HRLock(h) ==
    /\ Runs(h) /\ hs[h].pc = "rlock" /\ CanRLock(Srv(h))
    /\ lockR' = [lockR EXCEPT ![Srv(h)] = @ \cup {h}]
    /\ hs' = [hs EXCEPT ![h].pc = "collect"]
    /\ UNCHANGED <<variant, bootstrapAddr, natAddr, mainPc, registered, notified,
                   hostClosed, exitCause, pm, lockW, respBuf,
                   bootText, bootList, bootIdx, bootDial, bootErr, bootStream, hiTodo, reconPc,
                   tickA, tickB, tickLog>>

\* lines 125-132, 462-469
HCollect(h) ==
    /\ Runs(h) /\ hs[h].pc = "collect"
    /\ LET m == pm[Srv(h)]
           K == CollectKeys(m, hs[h].peer)
       IN  \E order \in Orders(K) :
               hs' = [hs EXCEPT ![h].arr = [i \in 1..Cardinality(K) |-> m[order[i]]],
                                ![h].keys = K,
                                ![h].pc = "write"]
    /\ lockR' = [lockR EXCEPT ![Srv(h)] = ReleaseR(@, h)]
    /\ UNCHANGED <<variant, bootstrapAddr, natAddr, mainPc, registered, notified,
                   hostClosed, exitCause, pm, lockW, respBuf,
                   bootText, bootList, bootIdx, bootDial, bootErr, bootStream, hiTodo, reconPc,
                   tickA, tickB, tickLog>>

\* lines 135-148, 472-485: ok says whether s.Write succeeds
HWrite(h, ok) ==
    /\ Runs(h) /\ hs[h].pc = "write"
    /\ LET line == ResponseJson(hs[h].arr) \o <<LF>>
       IN  /\ hs' = [hs EXCEPT ![h].pc = "done", ![h].arr = <<>>, ![h].keys = {},
                               ![h].peer = "none", ![h].replied = ok]
           /\ respBuf' = IF ok /\ h = 0 THEN respBuf \o line ELSE respBuf
    /\ UNCHANGED <<variant, bootstrapAddr, natAddr, mainPc, registered, notified,
                   hostClosed, exitCause, pm, lockW, lockR,
                   bootText, bootList, bootIdx, bootDial, bootErr, bootStream, hiTodo, reconPc,
                   tickA, tickB, tickLog>>

\* lines 487-492
HHello(h, ok) ==
    /\ Runs(h) /\ hs[h].pc = "hello"
    /\ LET line == <<Fine, LF>>
       IN  /\ hs' = [hs EXCEPT ![h].pc = "done", ![h].peer = "none", ![h].replied = ok]
           /\ respBuf' = IF ok /\ h = 0 THEN respBuf \o line ELSE respBuf
    /\ UNCHANGED <<variant, bootstrapAddr, natAddr, mainPc, registered, notified,
                   hostClosed, exitCause, pm, lockW, lockR,
                   bootText, bootList, bootIdx, bootDial, bootErr, bootStream, hiTodo, reconPc,
                   tickA, tickB, tickLog>>

\* the handler has returned and the peer's stream is gone (the client's
\* stream to the seed is gone when the client's bootstrap returns)
HClose(h) ==
    /\ h # 0
    /\ Runs(h) /\ hs[h].pc = "done"
    /\ hs' = [hs EXCEPT ![h] = Idle]
    /\ UNCHANGED <<variant, bootstrapAddr, natAddr, mainPc, registered, notified,
                   hostClosed, exitCause, pm, lockW, lockR, respBuf,
                   bootText, bootList, bootIdx, bootDial, bootErr, bootStream, hiTodo, reconPc,
                   tickA, tickB, tickLog>>

(***************************************************************************)
(* The main thread: Init up to the bootstrap call.                         *)
(***************************************************************************)
\* the process of N ends: its goroutines, its memory and its streams are
\* gone (and with the bootstrap stream what the model follows of the seed)
ProcessEnds(cause) ==
    /\ mainPc' = "exited"
    /\ exitCause' = cause
    /\ hs' = [h \in Slots |-> Idle]
    /\ pm' = [n \in Nodes |-> EmptyMap]
    /\ lockW' = [n \in Nodes |-> NoTask]
    /\ lockR' = [n \in Nodes |-> {}]
    /\ reconPc' = "off"
    /\ bootstrapAddr' = <<>> /\ natAddr' = <<>>
    /\ respBuf' = <<>> /\ bootText' = <<>> /\ bootList' = <<>> /\ bootIdx' = 1
    /\ bootDial' = <<>> /\ bootErr' = "none" /\ bootStream' = "none" /\ hiTodo' = {}
    /\ tickA' = {} /\ tickB' = {} /\ tickLog' = <<>>
    /\ UNCHANGED <<variant, registered, notified>>

\* where Init goes when bootstrap is over or was not asked for
AfterBootstrap(v, addr) == IF v = "dht" /\ addr # <<>> THEN "hi" ELSE "spawn"

\* lines 260-300 (mp2p: the NAT mapping, fatal when it fails), 647-650 (dht)
MainSetup(natOk) ==
    /\ mainPc = "start"
    /\ IF variant = "mp2p" /\ ~natOk
       THEN /\ ProcessEnds("fatal")
            /\ UNCHANGED hostClosed
       ELSE /\ natAddr' = IF variant = "mp2p" THEN ConnectString("N") ELSE <<>>
            /\ registered' = TRUE
            /\ mainPc' = IF bootstrapAddr # <<>> THEN "boot_connect"
                         ELSE AfterBootstrap(variant, bootstrapAddr)
            /\ UNCHANGED <<variant, bootstrapAddr, notified, hostClosed, exitCause,
                           pm, lockW, lockR, hs, respBuf, bootText, bootList,
                           bootIdx, bootDial, bootErr, bootStream, hiTodo, reconPc,
                           tickA, tickB, tickLog>>

(***************************************************************************)
(* The bootstrap client: bootstrap (154-213), bootstrap + updatePeer       *)
(* (498-555).                                                              *)
(***************************************************************************)
\* the request the client writes: line 173, line 535
Request(v, nat) == IF v = "mp2p" THEN nat \o <<SlashN>> ELSE <<Discover, LF>>

\* the stream when bootstrap returns err: s.Reset() (182, 546) comes before
\* the decoding, and no other return path closes or resets s
StreamAfter(err, st) == IF err = "decode" THEN "reset" ELSE st

\* bootstrap returns err, Init logs it and goes on (296-300, 651-657).  The
\* locals of bootstrap are gone and the seed is followed no further.
BootReturn(err) ==
    /\ mainPc' = AfterBootstrap(variant, bootstrapAddr)
    /\ bootErr' = err
    /\ hiTodo' = IF variant = "dht" THEN DOMAIN pm["N"] ELSE {}
    /\ respBuf' = <<>> /\ bootText' = <<>> /\ bootList' = <<>> /\ bootIdx' = 1
    /\ bootDial' = <<>>
    /\ hs' = [hs EXCEPT ![0] = Idle]
    /\ pm' = [pm EXCEPT !["S"] = EmptyMap]
    /\ lockW' = [lockW EXCEPT !["S"] = NoTask]
    /\ lockR' = [lockR EXCEPT !["S"] = {}]
    /\ bootStream' = StreamAfter(err, bootStream)
    /\ UNCHANGED <<variant, bootstrapAddr, natAddr, registered, notified,
                   hostClosed, exitCause, reconPc, tickA, tickB, tickLog>>

\* lines 156-165, 518-527: textToAddrInfo, then node.Connect
BootConnect(ok) ==
    /\ mainPc = "boot_connect"
    /\ IF ~ParseOk(bootstrapAddr) THEN BootReturn("parse")
       ELSE IF ~ok THEN BootReturn("connect")
       ELSE /\ mainPc' = "boot_stream"
            /\ UNCHANGED <<variant, bootstrapAddr, natAddr, registered, notified,
                           hostClosed, exitCause, pm, lockW, lockR, hs, respBuf,
                           bootText, bootList, bootIdx, bootDial, bootErr, bootStream, hiTodo,
                           reconPc, tickA, tickB, tickLog>>

\* the far end of the bootstrap stream is handleBootstrapStream / handleStream
\* of this program, or (pc "foreign") another implementation of the protocol
ForeignSeed == hs[0].pc = "foreign"

\* the map of S when N's stream arrives: what the requests S served before
\* and its own ticks left there
SeedMaps == {EmptyMap,
             [k \in {"A"} |-> ConnectString("A")],
             [k \in {"A", "B"} |-> IF k = "A" THEN ConnectString("A") ELSE <<>>]}

\* lines 169-172, 531-534: the seed's handler is started on the new stream;
\* program says whether the seed runs this program, m is the map it holds
BootNewStream(ok, program, m) ==
    /\ mainPc = "boot_stream"
    /\ IF ~ok THEN BootReturn("stream")
       ELSE /\ mainPc' = "boot_write"
            /\ hs' = [hs EXCEPT ![0] = [Idle EXCEPT !.pc = IF program THEN "read" ELSE "foreign",
                                                    !.peer = "N"]]
            /\ pm' = [pm EXCEPT !["S"] = IF program THEN m ELSE EmptyMap]
            /\ bootStream' = "open"
            /\ UNCHANGED <<variant, bootstrapAddr, natAddr, registered, notified,
                           hostClosed, exitCause, lockW, lockR, respBuf,
                           bootText, bootList, bootIdx, bootDial, bootErr, hiTodo,
                           reconPc, tickA, tickB, tickLog>>

\* lines 173-176, 535-538
BootWrite(ok) ==
    /\ mainPc = "boot_write"
    /\ IF ~ok THEN BootReturn("write")
       ELSE /\ mainPc' = "boot_read"
            /\ hs' = IF ForeignSeed THEN hs
                     ELSE [hs EXCEPT ![0].inbuf = @ \o Request(variant, natAddr)]
            /\ UNCHANGED <<variant, bootstrapAddr, natAddr, registered, notified,
                           hostClosed, exitCause, pm, lockW, lockR, respBuf,
                           bootText, bootList, bootIdx, bootDial, bootErr, bootStream, hiTodo,
                           reconPc, tickA, tickB, tickLog>>

\* what a seed that is not this program may answer with
ForeignElems == {ConnectString("A"), ConnectString("B"), <<Junk>>}
ForeignLists == UNION {[1..n -> ForeignElems] : n \in 0..MaxList}
ForeignLines == {ResponseJson(l) : l \in ForeignLists}
                \cup {<<"null">>, <<"[", Quote, Junk>>, <<>>, <<"[", "5", "]">>}

\* a seed that is not this program answers
ForeignRespond(line) ==
    /\ mainPc = "boot_read" /\ ForeignSeed /\ respBuf = <<>>
    /\ respBuf' = line \o <<LF>>
    /\ UNCHANGED <<variant, bootstrapAddr, natAddr, mainPc, registered, notified,
                   hostClosed, exitCause, pm, lockW, lockR, hs,
                   bootText, bootList, bootIdx, bootDial, bootErr, bootStream, hiTodo, reconPc,
                   tickA, tickB, tickLog>>

\* lines 177-181, 539-545: the read returns when a line has arrived
BootRead ==
    /\ mainPc = "boot_read" /\ HasLine(respBuf)
    /\ bootText' = ReadLine(respBuf)
    /\ respBuf' = <<>>
    /\ mainPc' = "boot_reset"
    /\ UNCHANGED <<variant, bootstrapAddr, natAddr, registered, notified,
                   hostClosed, exitCause, pm, lockW, lockR, hs,
                   bootList, bootIdx, bootDial, bootErr, bootStream, hiTodo, reconPc,
                   tickA, tickB, tickLog>>

\* lines 178-180, 541-543: the stream fails before a line has arrived
BootReadFail ==
    /\ mainPc = "boot_read"
    /\ BootReturn("read")

\* the error of json.Unmarshal not looked at
AfterDecodeUnchecked(dec) == "merge"

\* what the client does with the decoded response: lines 189-192, 500-504
AfterDecode(dec) == IF dec.ok THEN "merge" ELSE "return"

\* lines 182-192, 546-552 and 499-504: s.Reset, then json.Unmarshal
BootReset(ok) ==
    /\ mainPc = "boot_reset"
    /\ IF ~ok THEN BootReturn("reset")
       ELSE LET dec == Unmarshal(bootText)
            IN  IF AfterDecode(dec) = "return" THEN BootReturn("decode")
                ELSE /\ mainPc' = "boot_merge"
                     /\ bootList' = dec.list
                     /\ bootIdx' = 1
                     /\ bootStream' = "reset"
                     /\ UNCHANGED <<variant, bootstrapAddr, natAddr, registered,
                                    notified, hostClosed, exitCause, pm, lockW,
                                    lockR, hs, respBuf, bootText, bootDial, bootErr,
                                    hiTodo, reconPc, tickA, tickB, tickLog>>

\* whether the loop body reaches the map write for an element: lines 194-205
\* (parse error: continue; connect error: continue), lines 507-511
Installs(v, text, dialOk) ==
    IF v = "mp2p" THEN ParseOk(text) /\ dialOk ELSE ParseOk(text)

\* break instead of continue when an element is skipped
NextIdxBreak(i, list, installed) == IF installed THEN i + 1 ELSE Len(list) + 1

\* the index the loop goes on with after an element: continue, never break
NextIdx(i, list, installed) == i + 1

\* one element of the range loop: lines 193-210, 506-513; the map write is
\* done without the lock
BootMerge(dialOk) ==
    /\ mainPc = "boot_merge" /\ bootIdx <= Len(bootList)
    /\ LET text == bootList[bootIdx]
           inst == Installs(variant, text, dialOk)
       IN  /\ pm' = IF inst THEN [pm EXCEPT !["N"] = MapPut(@, ParseId(text), text)] ELSE pm
           /\ bootIdx' = NextIdx(bootIdx, bootList, inst)
           /\ bootDial' = Append(bootDial, IF ~ParseOk(text) \/ variant = "dht" THEN "none"
                                           ELSE IF dialOk THEN "ok" ELSE "failed")
    /\ UNCHANGED <<variant, bootstrapAddr, natAddr, mainPc, registered, notified,
                   hostClosed, exitCause, lockW, lockR, hs, respBuf,
                   bootText, bootList, bootErr, bootStream, hiTodo, reconPc, tickA, tickB, tickLog>>

\* the map write of line 209 / 512 meets a handler inside its critical
\* section: the runtime may end the process (concurrent map access)
BootRaceFatal ==
    /\ mainPc = "boot_merge" /\ bootIdx <= Len(bootList)
    /\ ParseOk(bootList[bootIdx])
    /\ lockW["N"] # NoTask \/ lockR["N"] # {}
    /\ ProcessEnds("fatal")
    /\ UNCHANGED hostClosed

\* line 212, 554: the loop is over, bootstrap returns nil
BootFinish ==
    /\ mainPc = "boot_merge" /\ bootIdx > Len(bootList)
    /\ BootReturn("ok")

\* lines 657-659 and sayHi (558-595): one round of the range loop; every
\* error inside sayHi is swallowed; the map is read without the lock
SayHi(k) ==
    /\ mainPc = "hi" /\ k \in hiTodo
    /\ hiTodo' = hiTodo \ {k}
    /\ UNCHANGED <<variant, bootstrapAddr, natAddr, mainPc, registered, notified,
                   hostClosed, exitCause, pm, lockW, lockR, hs, respBuf,
                   bootText, bootList, bootIdx, bootDial, bootErr, bootStream, reconPc,
                   tickA, tickB, tickLog>>

\* the range of line 657 meets a handler that holds the lock for its write
HiRaceFatal ==
    /\ mainPc = "hi" /\ hiTodo # {}
    /\ lockW["N"] # NoTask
    /\ ProcessEnds("fatal")
    /\ UNCHANGED hostClosed

\* line 660: the range loop is over
HiDone ==
    /\ mainPc = "hi" /\ hiTodo = {}
    /\ mainPc' = "spawn"
    /\ UNCHANGED <<variant, bootstrapAddr, natAddr, registered, notified, hostClosed, exitCause, pm, lockW, lockR, hs, respBuf, bootText,
                   bootList, bootIdx, bootDial, bootErr, bootStream, hiTodo, reconPc,
                   tickA, tickB, tickLog>>

(***************************************************************************)
(* The reconciliation goroutine: lines 303-334 (mp2p), 663-674 (dht).      *)
(***************************************************************************)
\* the peers the routing table of N can hold
Routable == {"S", "A", "B"}

\* a set as ListPeers returns it, in some order
RECURSIVE ListOf(_)
ListOf(B) ==
    IF B = {} THEN <<>>
    ELSE LET p == CHOOSE x \in B : TRUE IN <<p>> \o ListOf(B \ {p})

\* the first loop without its "if exists { continue }": every listed peer is
\* set to ""
RECURSIVE InsertLoopOverwrite(_, _, _, _)
InsertLoopOverwrite(m, ids, log, lp) ==
    IF lp = <<>> THEN [m |-> m, ids |-> ids, log |-> log]
    ELSE LET id == Head(lp)
         IN  InsertLoopOverwrite([x \in (DOMAIN m) \cup {id} |-> IF x = id THEN <<>> ELSE m[x]],
                                 ids \cup {id},
                                 IF id \in DOMAIN m THEN log ELSE Append(log, <<"joined", id>>),
                                 Tail(lp))

\* lines 309-319: [m, ids, log] after the first loop
RECURSIVE InsertLoop(_, _, _, _)
InsertLoop(m, ids, log, lp) ==
    IF lp = <<>> THEN [m |-> m, ids |-> ids, log |-> log]
    ELSE LET id == Head(lp)
         IN  IF id \in DOMAIN m
             THEN InsertLoop(m, ids \cup {id}, log, Tail(lp))
             ELSE InsertLoop(MapPut(m, id, <<>>), ids \cup {id},
                             Append(log, <<"joined", id>>), Tail(lp))

\* lines 320-328: [m, log] after the second loop over the keys todo
RECURSIVE DeleteLoop(_, _, _, _)
DeleteLoop(m, ids, log, todo) ==
    IF todo = {} THEN [m |-> m, log |-> log]
    ELSE LET k == CHOOSE x \in todo : TRUE
         IN  IF k \in ids
             THEN DeleteLoop(m, ids, log, todo \ {k})
             ELSE DeleteLoop(MapDelete(m, k), ids,
                             Append(log, <<"left", k>>), todo \ {k})

\* the tick without its second loop
DiffInsertOnly(m, lp) ==
    LET a == InsertLoop(m, {}, <<>>, lp)
    IN  [m |-> a.m, log |-> a.log]

\* lines 306-328: the whole diff of one tick
Diff(m, lp) ==
    LET a == InsertLoop(m, {}, <<>>, lp)
    IN  DeleteLoop(a.m, a.ids, a.log, DOMAIN a.m)

\* lines 303 and 337-339 / 663 and 677-679: go func(), signal.Notify, and
\* the main thread waits in <-ch; Init's arguments are read no more
MainSpawn ==
    /\ mainPc = "spawn"
    /\ mainPc' = "wait"
    /\ reconPc' = "refresh"
    /\ notified' = TRUE
    /\ bootstrapAddr' = <<>> /\ natAddr' = <<>> /\ bootErr' = "none"
    /\ bootStream' = "none"
    /\ UNCHANGED <<variant, registered, hostClosed, exitCause, pm, lockW, lockR,
                   hs, respBuf, bootText, bootList, bootIdx, bootDial, hiTodo,
                   tickA, tickB, tickLog>>

\* line 305 / 665: kadDHT.RefreshRoutingTable(), its result is not looked at
ReconRefresh ==
    /\ Alive /\ reconPc = "refresh"
    /\ reconPc' = IF variant = "mp2p" THEN "lock" ELSE "list"
    /\ UNCHANGED <<variant, bootstrapAddr, natAddr, mainPc, registered, notified,
                   hostClosed, exitCause, pm, lockW, lockR, hs, respBuf,
                   bootText, bootList, bootIdx, bootDial, bootErr, bootStream, hiTodo,
                   tickA, tickB, tickLog>>

\* line 308
ReconLock ==
    /\ Alive /\ reconPc = "lock" /\ CanLock("N")
    /\ lockW' = [lockW EXCEPT !["N"] = Recon]
    /\ reconPc' = "diff"
    /\ UNCHANGED <<variant, bootstrapAddr, natAddr, mainPc, registered, notified,
                   hostClosed, exitCause, pm, lockR, hs, respBuf,
                   bootText, bootList, bootIdx, bootDial, bootErr, bootStream, hiTodo,
                   tickA, tickB, tickLog>>

\* lines 309-329: ListPeers returns B; both loops
ReconDiff(B) ==
    /\ Alive /\ reconPc = "diff"
    /\ LET d == Diff(pm["N"], ListOf(B))
       IN  /\ pm' = [pm EXCEPT !["N"] = d.m]
           /\ tickLog' = d.log
    /\ tickA' = DOMAIN pm["N"]
    /\ tickB' = B
    /\ reconPc' = "unlock"
    /\ UNCHANGED <<variant, bootstrapAddr, natAddr, mainPc, registered, notified,
                   hostClosed, exitCause, lockW, lockR, hs, respBuf,
                   bootText, bootList, bootIdx, bootDial, bootErr, bootStream, hiTodo>>

\* line 330: sm.Unlock(); the tick's idMap and log lines are done with
ReconUnlock ==
    /\ Alive /\ reconPc = "unlock"
    /\ lockW' = [lockW EXCEPT !["N"] = ReleaseW(@)]
    /\ tickA' = {} /\ tickB' = {} /\ tickLog' = <<>>
    /\ reconPc' = "sleep"
    /\ UNCHANGED <<variant, bootstrapAddr, natAddr, mainPc, registered, notified,
                   hostClosed, exitCause, pm, lockR, hs, respBuf,
                   bootText, bootList, bootIdx, bootDial, bootErr, bootStream, hiTodo>>

\* lines 667-670: the dht variant only logs the peers
ReconList ==
    /\ Alive /\ reconPc = "list"
    /\ reconPc' = "sleep"
    /\ UNCHANGED <<variant, bootstrapAddr, natAddr, mainPc, registered, notified,
                   hostClosed, exitCause, pm, lockW, lockR, hs, respBuf,
                   bootText, bootList, bootIdx, bootDial, bootErr, bootStream, hiTodo,
                   tickA, tickB, tickLog>>

\* line 332 / 672: time.Sleep is over
ReconWake ==
    /\ Alive /\ reconPc = "sleep"
    /\ reconPc' = "refresh"
    /\ UNCHANGED <<variant, bootstrapAddr, natAddr, mainPc, registered, notified,
                   hostClosed, exitCause, pm, lockW, lockR, hs, respBuf,
                   bootText, bootList, bootIdx, bootDial, bootErr, bootStream, hiTodo,
                   tickA, tickB, tickLog>>

(***************************************************************************)
(* Signals and shutdown: lines 336-342, 676-682.                           *)
(***************************************************************************)
\* what a signal does to the process: before signal.Notify the Go runtime
\* ends it at once; after it the signal is put into ch
OnSignal(isNotified) == IF isNotified THEN "queued" ELSE "killed"

\* SIGINT or SIGTERM arrives.  Queued in ch it wakes the main thread, which
\* sits in <-ch (line 339): node.Close(), and Init returns (lines 340-342)
Signal ==
    /\ Alive
    /\ hostClosed' = (OnSignal(notified) = "queued")
    /\ ProcessEnds("signal")

(***************************************************************************)
(* The specification.                                                      *)
(***************************************************************************)
\* what Init is called with as the seed: nothing, the connect string of S,
\* a text that is no connect string
SeedArgs == {<<>>, ConnectString("S"), <<Junk>>}

Init ==
    /\ variant \in Variants
    /\ bootstrapAddr \in SeedArgs
    /\ natAddr = <<>>
    /\ mainPc = "start"
    /\ registered = FALSE
    /\ notified = FALSE
    /\ hostClosed = FALSE
    /\ exitCause = "none"
    /\ pm = [n \in Nodes |-> EmptyMap]
    /\ lockW = [n \in Nodes |-> NoTask]
    /\ lockR = [n \in Nodes |-> {}]
    /\ hs = [h \in Slots |-> Idle]
    /\ respBuf = <<>>
    /\ bootText = <<>>
    /\ bootList = <<>>
    /\ bootIdx = 1
    /\ bootDial = <<>>
    /\ bootErr = "none"
    /\ bootStream = "none"
    /\ hiTodo = {}
    /\ reconPc = "off"
    /\ tickA = {}
    /\ tickB = {}
    /\ tickLog = <<>>

Next ==
    \/ \E h \in Slots, p \in EnvPeers : \E bytes \in EnvBytes(p) : HOpen(h, p, bytes)
    \/ \E h \in Slots : HRead(h)
    \/ \E h \in Slots : HReadFail(h)
    \/ \E h \in Slots : HLock(h)
    \/ \E h \in Slots : HUpsert(h)
    \/ \E h \in Slots : HRLock(h)
    \/ \E h \in Slots : HCollect(h)
    \/ \E h \in Slots, ok \in BOOLEAN : HWrite(h, ok)
    \/ \E h \in Slots, ok \in BOOLEAN : HHello(h, ok)
    \/ \E h \in Slots : HClose(h)
    \/ \E ok \in BOOLEAN : MainSetup(ok)
    \/ \E ok \in BOOLEAN : BootConnect(ok)
    \/ \E ok, program \in BOOLEAN, m \in SeedMaps : BootNewStream(ok, program, m)
    \/ \E ok \in BOOLEAN : BootWrite(ok)
    \/ \E line \in ForeignLines : ForeignRespond(line)
    \/ BootRead
    \/ BootReadFail
    \/ \E ok \in BOOLEAN : BootReset(ok)
    \/ \E ok \in BOOLEAN : BootMerge(ok)
    \/ BootRaceFatal
    \/ BootFinish
    \/ \E k \in PeerIds : SayHi(k)
    \/ HiRaceFatal
    \/ HiDone
    \/ MainSpawn
    \/ ReconRefresh
    \/ ReconLock
    \/ \E B \in SUBSET Routable : ReconDiff(B)
    \/ ReconUnlock
    \/ ReconList
    \/ ReconWake
    \/ Signal

Spec == Init /\ [][Next]_vars

(***************************************************************************)
(* Scheduling: a goroutine that can run does run; a read returns once its  *)
(* line has arrived; sync.RWMutex hands the lock to a waiting writer       *)
(* (a pending Lock blocks new readers, and a starving waiter is served     *)
(* first), so a task waiting in Lock is not passed over forever.  Nothing  *)
(* is assumed about the network, the peers or signals.                     *)
(***************************************************************************)
Fairness ==
    /\ WF_vars(ReconRefresh)
    /\ SF_vars(ReconLock)
    /\ WF_vars(\E B \in SUBSET Routable : ReconDiff(B))
    /\ WF_vars(ReconUnlock)
    /\ WF_vars(ReconList)
    /\ WF_vars(ReconWake)
    /\ \A h \in Slots : WF_vars(HUpsert(h)) /\ WF_vars(HCollect(h))

FairSpec == Init /\ [][Next]_vars /\ Fairness

\* The goroutine that serves the client's stream in the seed runs whenever
\* it can: a read returns once the line is there, a lock that is free again
\* and again is taken, a write ends (well or with an error); and the
\* client's read returns once the response line is there.
HandshakeFairness ==
    /\ WF_vars(HRead(0))
    /\ SF_vars(HLock(0))
    /\ WF_vars(HUpsert(0))
    /\ SF_vars(HRLock(0))
    /\ WF_vars(HCollect(0))
    /\ WF_vars(\E ok \in BOOLEAN : HWrite(0, ok))
    /\ WF_vars(BootRead)

HandshakeSpec == Init /\ [][Next]_vars /\ HandshakeFairness

\* sync.RWMutex starves neither side: a pending Lock keeps new readers out,
\* and Unlock lets the readers that wait go first.  A task of N that waits
\* in Lock or RLock gets the lock if it is free again and again, and a task
\* inside a critical section goes on to its end.
LockFairness ==
    /\ SF_vars(ReconLock)
    /\ WF_vars(\E B \in SUBSET Routable : ReconDiff(B))
    /\ WF_vars(ReconUnlock)
    /\ \A h \in 1..MaxHandlers :
          /\ SF_vars(HLock(h) \/ HRLock(h))
          /\ WF_vars(HUpsert(h))
          /\ WF_vars(HCollect(h))

LockFairSpec == Init /\ [][Next]_vars /\ LockFairness

(***************************************************************************)
(* Properties.                                                             *)
(***************************************************************************)

\* C1 (self-exclusion): whenever a handler has collected the list it is
\* about to write back to peer P, the map entries that went into the list
\* are entries under keys other than P, one list element per such entry.
C1_SelfExclusion ==
    \A h \in Slots :
        hs[h].pc = "write" =>
            /\ hs[h].peer \notin hs[h].keys
            /\ Len(hs[h].arr) = Cardinality(hs[h].keys)

\* C1 witness: a handler of N has collected a non-empty list for a peer
\* whose own entry is in the map, while another handler of N is at work.
C1_Witness ==
    \E h, g \in 1..MaxHandlers :
        /\ h # g
        /\ hs[h].pc = "write" /\ hs[h].keys # {}
        /\ hs[h].peer \in DOMAIN pm["N"]
        /\ hs[g].pc \in {"lock", "upsert", "rlock", "collect"}

\* the number of log lines <<kind, id>> of the tick
EventCount(kind, id) == Cardinality({i \in 1..Len(tickLog) : tickLog[i] = <<kind, id>>})

\* C2 (diff correctness): when a tick is about to release the write lock,
\* the keys of the map are exactly the peers ListPeers returned (B), there
\* is one "joined" line for each peer of B \ A and for no other, and one
\* "left" line for each peer of A \ B and for no other (A: the keys when
\* the tick took the lock).
C2_DiffCorrect ==
    reconPc = "unlock" =>
        /\ DOMAIN pm["N"] = tickB
        /\ \A id \in PeerIds :
            /\ EventCount("joined", id) = IF id \in tickB \ tickA THEN 1 ELSE 0
            /\ EventCount("left", id) = IF id \in tickA \ tickB THEN 1 ELSE 0

\* C2 witness: a tick that found peers to add, peers to drop and peers to keep.
C2_Witness ==
    /\ reconPc = "unlock"
    /\ tickB \ tickA # {} /\ tickA \ tickB # {} /\ tickA \cap tickB # {}

\* C8 (loop liveness): once the reconciliation goroutine runs, every tick
\* it starts is finished and every sleep is followed by the next tick,
\* unless the process ends; nothing the handlers or the bootstrap client
\* do keeps the tick from getting the write lock.
C8_LoopLive ==
    /\ [](reconPc \in {"refresh", "lock", "diff", "unlock", "list"}
            => <>(reconPc = "sleep" \/ ~Alive))
    /\ [](reconPc = "sleep" => <>(reconPc = "refresh" \/ ~Alive))

\* C3 (handshake completion): once the client has written its request to a
\* seed that runs this program and waits for the response, it stops waiting
\* (the response arrived, or its read failed, or the process ended) unless
\* the seed's read or the seed's write failed.
C3_HandshakeCompletes ==
    [](mainPc = "boot_read" /\ ~ForeignSeed
         => <>(\/ mainPc # "boot_read"
               \/ hs[0].kind = "readerr"
               \/ hs[0].pc = "done" /\ ~hs[0].replied))

\* C3 in the variant whose request ends with the newline (line 535): there the
\* handshake completes
C3_HandshakeCompletesDht ==
    [](variant = "dht" /\ mainPc = "boot_read" /\ ~ForeignSeed
         => <>(\/ mainPc # "boot_read"
               \/ hs[0].kind = "readerr"
               \/ hs[0].pc = "done" /\ ~hs[0].replied))

\* the seed's map without the entry of N
SeedOthers == [k \in (DOMAIN pm["S"]) \ {"N"} |-> pm["S"][k]]

\* C4 (end-to-end scenario): when bootstrap against a seed that runs this
\* program and held {A: addrA} is about to return nil, every dial having
\* succeeded and no inbound handler of N being at work, then the seed has
\* an entry for N, the response line was exactly ["addrA"], and N's map has
\* an entry for S and the entry A -> addrA.
C4_Scenario ==
    ( /\ mainPc = "boot_merge" /\ bootIdx > Len(bootList)
      /\ hs[0].pc \notin {"idle", "foreign"}
      /\ SeedOthers = [k \in {"A"} |-> ConnectString("A")]
      /\ \A i \in 1..Len(bootDial) : bootDial[i] # "failed"
      /\ \A h \in 1..MaxHandlers : hs[h].pc = "idle" )
    => /\ "N" \in DOMAIN pm["S"]
       /\ bootText = Marshal(<<ConnectString("A")>>)
       /\ "S" \in DOMAIN pm["N"]
       /\ "A" \in DOMAIN pm["N"] /\ pm["N"]["A"] = ConnectString("A")

\* C5 (upsert regardless of dial outcome): every step of the merge loop over
\* an element that parses leaves the entry peer-id -> connect string in N's
\* map, whatever the dial did.
C5_UpsertRegardless ==
    [][ ( /\ mainPc = "boot_merge" /\ bootIdx <= Len(bootList)
          /\ bootIdx' = bootIdx + 1
          /\ ParseOk(bootList[bootIdx]) )
        => /\ ParseId(bootList[bootIdx]) \in DOMAIN pm'["N"]
           /\ pm'["N"][ParseId(bootList[bootIdx])] = bootList[bootIdx] ]_vars

\* C6 (partial-batch resilience): when the merge loop is over, every element
\* of the response list has been visited, and every element that parsed and
\* whose dial did not fail has its peer ID in N's map.
C6_BatchResilient ==
    (mainPc = "boot_merge" /\ bootIdx > Len(bootList)) =>
        /\ Len(bootDial) = Len(bootList)
        /\ \A i \in 1..Len(bootList) :
              (ParseOk(bootList[i]) /\ bootDial[i] # "failed")
                  => ParseId(bootList[i]) \in DOMAIN pm["N"]

\* C6 witness: the loop is over a list whose first element is malformed and
\* whose second element was installed.
C6_Witness ==
    /\ mainPc = "boot_merge" /\ bootIdx > Len(bootList)
    /\ Len(bootList) >= 2
    /\ ~ParseOk(bootList[1])
    /\ ParseOk(bootList[2]) /\ bootDial[2] # "failed"
    /\ ParseId(bootList[2]) \in DOMAIN pm["N"]

\* C7 (clean termination): a process that had constructed its host (and
\* registered its stream handler on it) and was ended by a signal has closed
\* the host.
C7_SignalClosesHost == (exitCause = "signal" /\ registered) => hostClosed

\* C8 witness: a tick is over while one inbound handler has returned from a
\* failed read and another from a failed write of its response.
C8_Witness ==
    /\ reconPc = "sleep"
    /\ \E h, g \in 1..MaxHandlers :
          /\ hs[h].pc = "done" /\ hs[h].kind = "readerr"
          /\ hs[g].pc = "done" /\ hs[g].kind = "discover" /\ ~hs[g].replied

\* C9 (decode error aborts bootstrap, not the process): the step in which
\* the client finds the response line to be no JSON list of strings (or
\* fails to reset the stream) changes nothing in N's map, ends bootstrap
\* with that error, leaves the stream handler registered and takes Init on
\* towards the start of the reconciliation goroutine.
C9_DecodeAbort ==
    [][ ( /\ mainPc = "boot_reset" /\ ~Unmarshal(bootText).ok
          /\ mainPc' # "boot_reset" /\ mainPc' # "exited" )
        => /\ pm'["N"] = pm["N"]
           /\ bootErr' \in {"decode", "reset"}
           /\ registered'
           /\ mainPc' = AfterBootstrap(variant, bootstrapAddr) ]_vars

\* C9 witness: bootstrap has ended with the decode error and Init goes on.
C9_Witness ==
    /\ bootErr = "decode"
    /\ mainPc \in {"hi", "spawn"}
    /\ registered

\* the two literals of the switch of line 451
Markers == {<<Discover>>, <<Hello>>}

\* a handler in slot h takes, in this step, a line that is no marker
TakesUnmarked(h) ==
    /\ hs[h].pc = "read" /\ HasLine(hs[h].inbuf)
    /\ ReadLine(hs[h].inbuf) \notin Markers
    /\ hs'[h].pc \notin {"read", "idle"}
    /\ hs'[h].kind # "readerr"

\* the handler in slot h has returned without a reply, the maps untouched
ReturnsSilently(h) ==
    /\ hs'[h].pc = "done" /\ ~hs'[h].replied
    /\ pm' = pm
    /\ respBuf' = respBuf

\* C10 as claimed (unrecognized message): a handler that reads a line that
\* is neither marker writes no reply and leaves the map unchanged.
C10_Unrecognized ==
    [][ \A h \in Slots : TakesUnmarked(h) => ReturnsSilently(h) ]_vars

\* C10 as amended: in the variant that dispatches on markers (handleStream)
\* a handler that reads a line that is neither marker writes no reply and
\* leaves the map unchanged.
C10_UnrecognizedDht ==
    [][ \A h \in Slots : (variant = "dht" /\ TakesUnmarked(h)) => ReturnsSilently(h) ]_vars

\* C10 witness: a handler of N has returned from a line it did not recognize.
C10_Witness ==
    \E h \in 1..MaxHandlers :
        /\ variant = "dht"
        /\ hs[h].pc = "done" /\ hs[h].kind = "ignore" /\ ~hs[h].replied
\* C11 (the map shrinks only by reconciliation): the map of N is empty when
\* the program starts; every step of the living process that takes a key
\* out of N's map is the diff of a reconciliation tick, done under the
\* write lock; and the seed's handler takes no key out of the seed's map.
C11_ShrinkOnlyByTick ==
    /\ [](mainPc = "start" => pm["N"] = EmptyMap)
    /\ [][ /\ (mainPc' # "exited" /\ (DOMAIN pm["N"]) \ (DOMAIN pm'["N"]) # {})
               => (reconPc = "diff" /\ reconPc' = "unlock" /\ lockW["N"] = Recon)
           /\ (hs[0].pc # "idle" /\ hs'[0].pc # "idle")
               => (DOMAIN pm["S"]) \subseteq (DOMAIN pm'["S"]) ]_vars

\* C11 witness: a tick has taken out of the map the key of a peer that
\* opens streams to N, and has logged it as left.
C11_Witness ==
    /\ reconPc = "unlock"
    /\ \E k \in tickA \cap EnvPeers :
          k \notin DOMAIN pm["N"] /\ <<"left", k>> \in Range(tickLog)
\* the seed's handler has answered N's discovery request from a map that
\* held no entry but N's
SeedAnsweredEmpty ==
    /\ hs[0].pc = "done" /\ hs[0].kind = "discover" /\ hs[0].replied
    /\ SeedOthers = EmptyMap

\* C12 (empty response): a handler that collected no entry writes the line
\* "[]" and the newline; and when the seed's handler answered so, the client
\* finds exactly that line on its stream, reads "[]", decodes it without
\* error to the empty list and has no element to install.
C12_EmptyResponse ==
    /\ \A h \in Slots :
          (hs[h].pc = "write" /\ hs[h].keys = {})
              => ResponseJson(hs[h].arr) \o <<LF>> = <<"[", "]", LF>>
    /\ SeedAnsweredEmpty =>
          /\ mainPc = "boot_read" => respBuf = <<"[", "]", LF>>
          /\ mainPc = "boot_reset" =>
                /\ bootText = <<"[", "]">>
                /\ Unmarshal(bootText) = [ok |-> TRUE, list |-> <<>>]
          /\ mainPc = "boot_merge" =>
                /\ bootList = <<>> /\ bootDial = <<>>
                /\ ~ENABLED (\E ok \in BOOLEAN : BootMerge(ok))

\* C12 witness: the client has decoded the empty answer of the seed's
\* handler and is at the (empty) merge loop.
C12_Witness ==
    /\ SeedAnsweredEmpty
    /\ mainPc = "boot_merge" /\ bootText = <<"[", "]">> /\ bootList = <<>>
\* the step in which the handler in slot h assigns to the map (116-118, 456)
HandlerUpserts(h) == hs[h].pc = "upsert" /\ hs'[h].pc = "rlock"

\* the step in which the merge loop assigns to the map (209, 512)
MergeUpserts ==
    /\ mainPc = "boot_merge" /\ bootIdx <= Len(bootList) /\ bootIdx' = bootIdx + 1
    /\ ParseOk(bootList[bootIdx]) /\ bootDial'[bootIdx] # "failed"

\* going from map m to map n is one upsert of v under k: k holds v, every
\* other entry is as it was, and no entry is added when k was there
IsUpsert(m, n, k, v) ==
    /\ DOMAIN n = (DOMAIN m) \cup {k}
    /\ n[k] = v
    /\ \A x \in (DOMAIN m) \ {k} : n[x] = m[x]
    /\ k \in DOMAIN m => Cardinality(DOMAIN n) = Cardinality(DOMAIN m)

\* C13 (idempotent insert): every upsert, by a handler or by the bootstrap
\* merge, leaves the latest value under its key and the other entries as
\* they were, and adds no entry when the key was already in the map.
C13_IdempotentInsert ==
    [][ /\ \A h \in Slots : HandlerUpserts(h) =>
               IsUpsert(pm[Srv(h)], pm'[Srv(h)], hs[h].peer,
                        UpsertValue(variant, hs[h].text, MaOf(hs[h].peer), hs[h].peer))
        /\ MergeUpserts =>
               IsUpsert(pm["N"], pm'["N"], ParseId(bootList[bootIdx]), bootList[bootIdx]) ]_vars

\* C13 witness: two handlers have upserted the same peer ID, no tick has
\* run, and the map holds one entry.
C13_Witness ==
    \E h, g \in 1..MaxHandlers :
        /\ h # g
        /\ hs[h].pc \in {"rlock", "collect", "write"}
        /\ hs[g].pc \in {"rlock", "collect", "write"}
        /\ hs[h].peer = hs[g].peer
        /\ reconPc = "off"
        /\ DOMAIN pm["N"] = {hs[h].peer}
\* the task that changes N's map in this step holds the write lock: a
\* handler inside lines 114-120 / 455-457, or the tick inside 308-330
WriterHoldsLock ==
    \/ \E h \in 1..MaxHandlers : HandlerUpserts(h) /\ lockW["N"] = h
    \/ reconPc = "diff" /\ reconPc' = "unlock" /\ lockW["N"] = Recon

\* C14 (lock discipline): every step of the living process that changes
\* N's map is taken by a task that holds the write lock, and no step changes
\* the map while another task holds the lock for reading or writing.
C14_LockDiscipline ==
    [][ (mainPc' # "exited" /\ pm'["N"] # pm["N"]) => WriterHoldsLock ]_vars
\* C15 (the bootstrap stream is always closed): when bootstrap has returned
\* to Init, the stream it opened, if any, has been closed or reset.
C15_StreamClosed == mainPc \in {"hi", "spawn"} => bootStream # "open"

\* I/O positions of a handler: reading the request, writing the reply
HandlerIO == {"read", "write", "hello"}

\* C16 (no network I/O under the lock): a handler that reads from or writes
\* to its stream holds the lock of its node neither shared nor exclusive;
\* the lock is never held in the name of the bootstrap client (it dials,
\* writes and reads holding nothing); the reconciliation task refreshes the
\* routing table and sleeps without the lock and holds it only from Lock to
\* Unlock, for the diff.
C16_NoIOUnderLock ==
    /\ \A h \in Slots :
          hs[h].pc \in HandlerIO => (lockW[Srv(h)] # h /\ h \notin lockR[Srv(h)])
    /\ \A n \in Nodes : lockW[n] \in Slots \cup {NoTask, Recon} /\ lockR[n] \subseteq Slots
    /\ reconPc \in {"off", "refresh", "lock", "list", "sleep"} => lockW["N"] # Recon
    /\ lockW["N"] = Recon => reconPc \in {"diff", "unlock"}

\* C16 witness: a handler writes its reply while the tick holds the lock
\* and another handler waits for it.
C16_Witness ==
    \E h, g \in 1..MaxHandlers :
        /\ hs[h].pc = "write" /\ hs[g].pc \in {"lock", "rlock"}
        /\ lockW["N"] = Recon
\* the payload of the discovery request the handler in slot h has read:
\* the line itself in /mp2p/bootstrap, nothing in /p2p/dht (the line is the
\* marker)
Payload(h) == IF variant = "mp2p" THEN hs[h].text ELSE <<>>

\* C17 (sender upsert rule): the map assignment of a handler, which comes
\* before it collects the response, stores under the sender's peer ID the
\* payload of the request when there is one and otherwise the remote
\* endpoint joined with "/ipfs/" and the peer ID; what it stores is never
\* the empty string.
C17_SenderUpsert ==
    [][ \A h \in Slots : HandlerUpserts(h) =>
            LET P == hs[h].peer
                stored == pm'[Srv(h)][P]
            IN  /\ hs[h].kind = "discover"
                /\ hs[h].arr = <<>> /\ hs[h].keys = {}
                /\ Payload(h) # <<>> => stored = Payload(h)
                /\ Payload(h) = <<>> => stored = <<MaOf(P), Ipfs, P>>
                /\ stored # <<>> ]_vars

\* C17 witness: a handler has stored the synthesized connect string for a
\* request without payload and is about to collect the response.
C17_Witness ==
    \E h \in 1..MaxHandlers :
        /\ hs[h].pc \in {"rlock", "collect"}
        /\ hs[h].peer \in DOMAIN pm["N"]
        /\ pm["N"][hs[h].peer] = <<MaOf(hs[h].peer), Ipfs, hs[h].peer>>
        /\ reconPc = "off"
\* the step in which the tick diffs the routing table into the map
TickStep == reconPc = "diff" /\ reconPc' = "unlock"

\* k holds the empty string in map n and did not in map m
BecomesEmpty(m, n, k) ==
    /\ k \in DOMAIN n /\ n[k] = <<>>
    /\ k \in DOMAIN m => m[k] # <<>>

\* C18 (reconciliation preserves known addresses): a tick leaves the value
\* of every key that was in the map and is in the visible set as it was;
\* and in every step of the living process a value of N's map becomes the
\* empty string only by a tick that inserts a key that was absent.
C18_TickPreserves ==
    [][ /\ TickStep =>
              \A k \in (DOMAIN pm["N"]) \cap tickB' :
                  k \in DOMAIN pm'["N"] /\ pm'["N"][k] = pm["N"][k]
        /\ \A k \in PeerIds :
              (mainPc' # "exited" /\ BecomesEmpty(pm["N"], pm'["N"], k))
                  => (TickStep /\ k \notin DOMAIN pm["N"] /\ k \in tickB') ]_vars

\* C18 witness: a tick is done in which a peer that is visible kept the
\* connect string the map held for it, while another peer was inserted with
\* the empty string.
C18_Witness ==
    /\ reconPc = "unlock"
    /\ \E k \in tickA \cap tickB : pm["N"][k] # <<>>
    /\ \E k \in tickB \ tickA : pm["N"][k] = <<>>
\* who holds a lock is inside its critical section: past Lock and before
\* Unlock (114-120, 455-457, 308-330), past RLock and before RUnlock
\* (124-132, 461-469); and a writer excludes everybody else
HeldInside ==
    /\ \A h \in Slots :
          /\ lockW[Srv(h)] = h => hs[h].pc = "upsert"
          /\ h \in lockR[Srv(h)] => hs[h].pc = "collect"
    /\ lockW["N"] = Recon => reconPc \in {"diff", "unlock"}
    /\ \A n \in Nodes : lockW[n] # NoTask => lockR[n] = {}

\* a step that ends a critical section (or, for the tick, goes on inside it)
Releases ==
    \/ \E h \in Slots : HUpsert(h)
    \/ \E h \in Slots : HCollect(h)
    \/ \E B \in SUBSET Routable : ReconDiff(B)
    \/ ReconUnlock

\* C19 (the lock is always released): a task holds the lock only inside its
\* critical section, never while it reads, writes, sleeps or after it has
\* returned; whenever the lock is held a holder can go on to its release,
\* so the tasks are never all blocked on the lock; and every handler of N
\* and every tick that waits for the lock gets it (or the process ends).
C19_LockReleased ==
    /\ []HeldInside
    /\ []((\E n \in Nodes : lockW[n] # NoTask \/ lockR[n] # {}) => ENABLED Releases)
    /\ \A h \in 1..MaxHandlers :
          [](hs[h].pc \in {"lock", "rlock"}
               => <>(hs[h].pc \in {"upsert", "collect"} \/ ~Alive))
    /\ [](reconPc = "lock" => <>(reconPc = "diff" \/ ~Alive))

\* C19 witness: a handler holds the write lock while another handler and
\* the tick wait for it.
C19_Witness ==
    \E h, g \in 1..MaxHandlers :
        /\ lockW["N"] = h /\ hs[g].pc \in {"lock", "rlock"}
        /\ reconPc = "lock"
\* C20 (map values are valid connect strings for their key): every value
\* of N's map that is not the empty string parses (textToAddrInfo) to the
\* peer ID it is stored under.
C20_ValuesValid ==
    \A k \in DOMAIN pm["N"] :
        pm["N"][k] # <<>> => (ParseOk(pm["N"][k]) /\ ParseId(pm["N"][k]) = k)
====
